---- MODULE Spec2Model ----
(***************************************************************************)
(* A model of my_sqlalchemy: the MySQLAlchemy wrapper (add / get / update  *)
(* / delete / count over a registry of StandardModel classes), its         *)
(* get_session scope and the relational store it talks to.                 *)
(*                                                                         *)
(* One caller issues one operation at a time; an operation is the chain    *)
(*   Call<op> (the validation that precedes `with self.get_session()`)     *)
(*   Acquire, Yield, Body, Commit, Rollback, Close (get_session)           *)
(*   Return (what the caller of the operation sees).                       *)
(* A call may follow another at once (the same get again, the get that     *)
(* reads back an added row, the count of what a get returned); `prev` then *)
(* keeps the earlier call and its result.                                  *)
(* The store is the external database: rows become durable at commit.      *)
(* Failures of the body and of commit are Python exceptions of class       *)
(* Exception (what the handlers at my_sqlalchemy.py:59 and :252 catch);    *)
(* session.rollback() and session.close() are taken to return normally.    *)
(* SpecRegistry is the construction alone: ModelsHandler.__post_init__     *)
(* applied to what a caller may pass as `models`.                          *)
(* SpecThreads is the get_session scope of several threads that call the  *)
(* object at once, with the Session objects they hold.  SpecShell is a run *)
(* of the command line of manager.py.  SpecAsserter is                     *)
(* asserter.columns_values_are_same_type applied to lists of columns and   *)
(* values.                                                                 *)
(***************************************************************************)
EXTENDS Integers, Sequences, FiniteSets, TLC

\* ------------------------------------------------------------------ bounds
MaxRows == 2
MaxClock == 1
MaxModels == 3
MaxThreads == 2
MaxPairs == 2

\* ------------------------------------------------------------------ values
\* A Python value is a type tag and a payload; strings are numbered
\* ("a" is StrV(1), "b" is StrV(2)) so that values of any type compare.
None == [t |-> "NoneType", v |-> 0]
IntV(i) == [t |-> "int", v |-> i]
StrV(i) == [t |-> "str", v |-> i]
DtV(i) == [t |-> "datetime", v |-> i]

\* A dict is a function from its keys to values; this is the empty dict.
EmptyDict == [k \in {} |-> None]

\* A list is tagged like any other value.
List(items) == [t |-> "list", v |-> items]

\* ----------------------------------------------------------------- classes
\* A class is its __name__ and the base it inherits from.
MockModel == [name |-> "MockModel", base |-> "StandardModel"]
ValidModel == [name |-> "ValidModel", base |-> "StandardModel"]
InvalidModel == [name |-> "InvalidModel", base |-> "Base"]

Classes == {MockModel, ValidModel, InvalidModel}
Tables == {"MockModel", "ValidModel"}

\* The column descriptors of a class: the three StandardModel columns and
\* `name` (not nullable in MockModel, nullable in ValidModel).
TableColumns(cls) ==
    [id |-> [python_type |-> "int", nullable |-> FALSE, primary_key |-> TRUE],
     name |-> [python_type |-> "str", nullable |-> (cls.name # "MockModel"),
               primary_key |-> FALSE],
     created_at |-> [python_type |-> "datetime", nullable |-> FALSE,
                     primary_key |-> FALSE],
     updated_at |-> [python_type |-> "datetime", nullable |-> FALSE,
                     primary_key |-> FALSE]]

\* StandardModel.get_columns().keys()
get_columns(cls) == DOMAIN TableColumns(cls)

\* model.__table__.primary_key.columns.values()[0].name
PkColumn(cls) == CHOOSE c \in DOMAIN TableColumns(cls) : TableColumns(cls)[c].primary_key

Range(s) == {s[i] : i \in DOMAIN s}

\* ModelsHandler.__post_init__: the names of the registered classes, in
\* registration order.
ModelsListNames(models) == [i \in DOMAIN models |-> models[i].name]

\* The registrations MySQLAlchemy is constructed with.
Registrations == {<<MockModel>>, <<MockModel, ValidModel>>}

\* ------------------------------------------------------------------ errors
\* An error is its exception type, the check that raised it, the names it
\* reports as offending, the valid names it lists, its message and, for an
\* item of a list, the position of the item.
NoError ==
    [type |-> "none", check |-> "none", names |-> {}, valid_models |-> <<>>,
     valid_columns |-> {}, msg |-> "", position |-> -1]

\* An exception raised by the driver while a statement or a commit runs.
DriverError(m) == [NoError EXCEPT !.type = "Exception", !.msg = m]

\* str(e)
StrOf(e) == e.msg

\* _assert_model with a message that lists only the offending model.
AssertModel_ListsOffender(models, names, model) ==
    IF \E i \in DOMAIN models : models[i] = model
    THEN NoError
    ELSE [NoError EXCEPT !.type = "AssertionError", !.check = "model",
                         !.names = {model.name},
                         !.valid_models = <<model.name>>,
                         !.msg = "is not mapped"]

\* MySQLAlchemy._assert_model
AssertModel(models, names, model) ==
    IF \E i \in DOMAIN models : models[i] = model
    THEN NoError
    ELSE [NoError EXCEPT !.type = "AssertionError", !.check = "model",
                         !.names = {model.name}, !.valid_models = names,
                         !.msg = "is not mapped"]

\* _assert_columns_in_model without the primary key test of lines 110-120.
AssertColumnsInModel_NoPkTest(model, columns, exclude_primary_key, is_class, pk_value, msg) ==
    LET pk_column == PkColumn(model)
        columns_to_check == IF exclude_primary_key THEN columns \ {pk_column}
                            ELSE columns
        possible_columns == IF exclude_primary_key
                            THEN get_columns(model) \ {pk_column}
                            ELSE get_columns(model)
    IN  IF ~(columns_to_check \subseteq possible_columns)
        THEN [NoError EXCEPT !.type = "AssertionError", !.check = "columns",
                             !.names = columns_to_check,
                             !.valid_columns = possible_columns,
                             !.msg = "Invalid columns"]
        ELSE NoError

\* MySQLAlchemy._assert_columns_in_model.  `columns` is the set of names
\* checked; `is_class` tells a model class from a model instance, whose
\* primary key attribute is pk_value.
AssertColumnsInModel(model, columns, exclude_primary_key, is_class, pk_value, msg) ==
    LET pk_column == PkColumn(model)
        columns_to_check == IF exclude_primary_key THEN columns \ {pk_column}
                            ELSE columns
        possible_columns == IF exclude_primary_key
                            THEN get_columns(model) \ {pk_column}
                            ELSE get_columns(model)
        pk_error == IF is_class THEN pk_column \in columns ELSE pk_value # None
    IN  IF ~(columns_to_check \subseteq possible_columns)
        THEN [NoError EXCEPT !.type = "AssertionError", !.check = "columns",
                             !.names = columns_to_check,
                             !.valid_columns = possible_columns,
                             !.msg = "Invalid columns"]
        ELSE IF ~exclude_primary_key THEN NoError
        ELSE IF pk_error
        THEN [NoError EXCEPT !.type = "AssertionError",
                             !.check = "primary_key", !.names = {pk_column},
                             !.msg = msg]
        ELSE NoError

\* The first error of a sequence of checks (each check runs only when the
\* ones before it passed).
FirstError(checks) ==
    IF \A i \in DOMAIN checks : checks[i] = NoError THEN NoError
    ELSE checks[CHOOSE i \in DOMAIN checks :
                    /\ checks[i] # NoError
                    /\ \A j \in 1..(i - 1) : checks[j] = NoError]

\* ------------------------------------------------------------------- store
\* construct_where_clause: the conjunction of column == value predicates.
Matches(row, query_kwargs) ==
    \A c \in DOMAIN query_kwargs : row[c] = query_kwargs[c]

\* A statement whose WHERE clause was dropped: every row satisfies it.
Matching_IgnoresFilter(rows, query_kwargs) == rows

\* The rows of a table that satisfy a filter, in table order.
Matching(rows, query_kwargs) ==
    LET Test(r) == Matches(r, query_kwargs) IN SelectSeq(rows, Test)

\* A DELETE that does nothing when it has no WHERE clause.
NotMatching_EmptyFilterKeepsAll(rows, query_kwargs) ==
    IF DOMAIN query_kwargs = {} THEN rows
    ELSE LET Test(r) == ~Matches(r, query_kwargs) IN SelectSeq(rows, Test)

\* The rows of a table that do not satisfy a filter (what DELETE ... WHERE
\* leaves), in table order.
NotMatching(rows, query_kwargs) ==
    LET Test(r) == ~Matches(r, query_kwargs) IN SelectSeq(rows, Test)

\* The largest id of a table, 0 when it is empty.
RECURSIVE MaxId(_)
MaxId(rows) ==
    IF rows = <<>> THEN 0
    ELSE LET m == MaxId(Tail(rows))
         IN  IF Head(rows).id.v > m THEN Head(rows).id.v ELSE m

\* An attribute of a model instance: None when it was never set.
Attr(vals, c) == IF c \in DOMAIN vals THEN vals[c] ELSE None

\* An INSERT whose assigned ids start at 0.
NewRow_IdsFromZero(rows, vals, now) ==
    [id |-> IF Attr(vals, "id") = None
            THEN IntV(IF rows = <<>> THEN 0 ELSE MaxId(rows) + 1)
            ELSE vals["id"],
     name |-> Attr(vals, "name"),
     created_at |-> IF Attr(vals, "created_at") = None THEN DtV(now)
                    ELSE vals["created_at"],
     updated_at |-> IF Attr(vals, "updated_at") = None THEN DtV(now)
                    ELSE vals["updated_at"]]

\* The row an INSERT of a model instance creates: the database assigns the
\* id when the instance carries none, and the column defaults
\* (utils.utc_now) fill the timestamps left unset.
NewRow(rows, vals, now) ==
    [id |-> IF Attr(vals, "id") = None THEN IntV(MaxId(rows) + 1)
            ELSE vals["id"],
     name |-> Attr(vals, "name"),
     created_at |-> IF Attr(vals, "created_at") = None THEN DtV(now)
                    ELSE vals["created_at"],
     updated_at |-> IF Attr(vals, "updated_at") = None THEN DtV(now)
                    ELSE vals["updated_at"]]

\* A row violates NOT NULL when a non-nullable column holds None.
ViolatesNotNull(cls, row) ==
    \E c \in DOMAIN row : row[c] = None /\ ~TableColumns(cls)[c].nullable

\* A table violates the primary key when two rows have the same id.
ViolatesUnique(rows) ==
    \E i, j \in DOMAIN rows : i # j /\ rows[i].id = rows[j].id

\* session.commit() flushes the pending instances one INSERT at a time and
\* stops at the first one the database refuses; what was inserted before it
\* stays in the transaction's view.
RECURSIVE Flush(_, _, _, _)
Flush(cls, rows, pending, now) ==
    IF pending = <<>> THEN [rows |-> rows, ok |-> TRUE]
    ELSE LET row == NewRow(rows, Head(pending).vals, now)
         IN  IF ViolatesNotNull(cls, row) \/ ViolatesUnique(Append(rows, row))
             THEN [rows |-> rows, ok |-> FALSE]
             ELSE Flush(cls, Append(rows, row), Tail(pending), now)

\* An UPDATE that ignores its WHERE clause: every row takes the values.
UpdateRows_IgnoresWhere(rows, query_kwargs, values) ==
    [i \in DOMAIN rows |->
        [c \in DOMAIN rows[i] |->
            IF c \in DOMAIN values THEN values[c] ELSE rows[i][c]]]

\* UPDATE ... SET values WHERE filter: the matching rows take the values.
\* An UPDATE that refreshes created_at along with updated_at (onupdate set
\* on both columns).
UpdateRows_RefreshesCreatedAt(rows, query_kwargs, values) ==
    [i \in DOMAIN rows |->
        IF Matches(rows[i], query_kwargs)
        THEN [c \in DOMAIN rows[i] |->
                 IF c \in DOMAIN values THEN values[c]
                 ELSE IF c = "created_at" /\ "updated_at" \in DOMAIN values
                 THEN values["updated_at"]
                 ELSE rows[i][c]]
        ELSE rows[i]]

UpdateRows(rows, query_kwargs, values) ==
    [i \in DOMAIN rows |->
        IF Matches(rows[i], query_kwargs)
        THEN [c \in DOMAIN rows[i] |->
                 IF c \in DOMAIN values THEN values[c] ELSE rows[i][c]]
        ELSE rows[i]]

\* The database refuses an UPDATE that leaves a row violating a constraint.
UpdateRefused(cls, rows, query_kwargs, values) ==
    LET after == UpdateRows(rows, query_kwargs, values)
    IN  \/ \E i \in DOMAIN after : ViolatesNotNull(cls, after[i])
        \/ ViolatesUnique(after)

\* The order of two values in an ORDER BY: NULL first, then numbers, then
\* text.
TypeRank(v) == IF v.t = "NoneType" THEN 0 ELSE IF v.t = "int" THEN 1 ELSE 2
ValueLess(a, b) ==
    \/ TypeRank(a) < TypeRank(b)
    \/ TypeRank(a) = TypeRank(b) /\ a.v < b.v

\* Row a comes strictly before row b under the ordering columns_to_order_by,
\* a sequence of <<column, ascending>> pairs in order of precedence.
RECURSIVE RowBefore(_, _, _)
RowBefore(a, b, order) ==
    IF order = <<>> THEN FALSE
    ELSE LET col == Head(order)[1]
             up == Head(order)[2]
         IN  IF a[col] = b[col] THEN RowBefore(a, b, Tail(order))
             ELSE IF up THEN ValueLess(a[col], b[col])
             ELSE ValueLess(b[col], a[col])

\* Insert a row into a sorted sequence, after the rows it does not precede.
RECURSIVE InsertSorted(_, _, _)
InsertSorted(sorted, r, order) ==
    IF sorted = <<>> THEN <<r>>
    ELSE IF RowBefore(r, Head(sorted), order) THEN <<r>> \o sorted
    ELSE <<Head(sorted)>> \o InsertSorted(Tail(sorted), r, order)

\* ORDER BY
RECURSIVE OrderBy(_, _)
OrderBy(rows, order) ==
    IF rows = <<>> THEN <<>>
    ELSE InsertSorted(OrderBy(SubSeq(rows, 1, Len(rows) - 1), order),
                      rows[Len(rows)], order)

\* LIMIT: `if limit:` skips None and 0; a negative LIMIT is no limit.
Limit(rows, limit) ==
    IF limit = None \/ limit.v = 0 \/ limit.v < 0 \/ limit.v >= Len(rows)
    THEN rows
    ELSE SubSeq(rows, 1, limit.v)

\* get that orders every column ascending, whatever its flag says.
SelectRows_AlwaysAscending(cls, rows, query_kwargs, order, limit, columns_to_return) ==
    LET cols == IF columns_to_return = <<>> THEN get_columns(cls)
                ELSE Range(columns_to_return)
        up == [i \in DOMAIN order |-> <<order[i][1], TRUE>>]
        found == Limit(IF order = <<>> THEN Matching(rows, query_kwargs)
                       ELSE OrderBy(Matching(rows, query_kwargs), up),
                       limit)
    IN  [i \in DOMAIN found |-> [c \in cols |-> found[i][c]]]

\* get whose LIMIT cuts the matching rows before ORDER BY sorts them, as
\* the order of lines 307-316 reads.
SelectRows_LimitBeforeOrder(cls, rows, query_kwargs, order, limit, columns_to_return) ==
    LET cols == IF columns_to_return = <<>> THEN get_columns(cls)
                ELSE Range(columns_to_return)
        cut == Limit(Matching(rows, query_kwargs), limit)
        found == IF order = <<>> THEN cut ELSE OrderBy(cut, order)
    IN  [i \in DOMAIN found |-> [c \in cols |-> found[i][c]]]

\* get that selects every column, whatever columns_to_return asks for.
SelectRows_AllColumns(cls, rows, query_kwargs, order, limit, columns_to_return) ==
    Limit(IF order = <<>> THEN Matching(rows, query_kwargs)
          ELSE OrderBy(Matching(rows, query_kwargs), order),
          limit)

\* The statement get builds: WHERE, ORDER BY, LIMIT and the projection on
\* columns_to_return (all the columns when none is asked for).
SelectRows(cls, rows, query_kwargs, order, limit, columns_to_return) ==
    LET cols == IF columns_to_return = <<>> THEN get_columns(cls)
                ELSE Range(columns_to_return)
        found == Limit(IF order = <<>> THEN Matching(rows, query_kwargs)
                       ELSE OrderBy(Matching(rows, query_kwargs), order),
                       limit)
    IN  [i \in DOMAIN found |-> [c \in cols |-> found[i][c]]]

\* ------------------------------------------------------------------- state
VARIABLES
    init_models,        \* the `models` argument of MySQLAlchemy.__init__
    models_list,        \* self.models.models_list
    models_list_names,  \* self.models.models_list_names
    store,              \* the committed rows of each table
    clock,              \* the UTC clock utils.utc_now reads
    pc,                 \* where the operation in progress stands
    call,               \* the operation in progress and its arguments
    session,            \* the session of the get_session scope
    log,                \* the session methods called in this operation
    opened,             \* the sessions this operation has created
    exc,                \* the exception in flight inside get_session
    retval,             \* what the body of the `with` block returns
    result,             \* what the caller of the operation gets
    store_before,       \* the committed rows when the operation was called
    prev,               \* history: the call before this one and its result
    threads,            \* the calls that threads have in progress at once
    sessions,           \* the Session objects alive and the calls made on each
    shell,              \* a run of the command line: arguments, input, output
    asserted            \* a call of asserter.columns_values_are_same_type

\* The variables of one caller's operations, and those of the other
\* specifications (the threads, the command line, the asserter).
core == <<init_models, models_list, models_list_names, store, clock, pc, call,
          session, log, opened, exc, retval, result, store_before, prev>>

side == <<threads, sessions, shell, asserted>>

vars == <<core, side>>

NoSession == [state |-> "none", new |-> <<>>, view |-> [t \in Tables |-> <<>>]]

NoValue == [success |-> FALSE, error |-> "", number |-> 0, rows |-> <<>>]

NoResult == [kind |-> "none", value |-> NoValue, exc |-> NoError]

\* `column_values` is the mapping update was called with and
\* `data_to_be_updated` the same dict as the statement takes it (line 341
\* writes into it); `items` is the list add was called with and `data` the
\* same list as the loop of lines 228-247 leaves it.
NoCall ==
    [op |-> "none", model |-> InvalidModel, items |-> <<>>, data |-> <<>>,
     query_kwargs |-> EmptyDict, column_values |-> EmptyDict,
     data_to_be_updated |-> EmptyDict,
     limit |-> None, columns_to_return |-> <<>>, columns_to_order_by |-> <<>>]

\* The history kept while a call follows another at once: the call before
\* it, what that call returned and the store that call started from.
NoPrev ==
    [call |-> NoCall, value |-> NoValue, store_before |-> [t \in Tables |-> <<>>]]

\* The threads that may call the object at once, and what each has in
\* progress: the operation, where it stands, the Session object its
\* get_session frame holds (0: none), the sessions it has created and the
\* exception in flight.
Threads == 1..MaxThreads

NoThread ==
    [pc |-> "idle", op |-> "none", session |-> 0, opened |-> 0,
     exc |-> NoError]

\* The Session objects: one thread's call never has more than one, so no
\* more than MaxThreads are alive at once.  `log` lists the methods called
\* on the object, each with the thread that called it.
SessionIds == 1..MaxThreads

NoSessionObject == [state |-> "free", log |-> <<>>]

\* No command line is running.
NoShell ==
    [pc |-> "none", command |-> "", db_url |-> "", path |-> "",
     answer |-> "", prompted |-> FALSE, output |-> <<>>, invoked |-> <<>>,
     manager |-> [database_url |-> "", attrs |-> {}], raised |-> NoError]

\* asserter.columns_values_are_same_type is not being called.
NoAsserted ==
    [pc |-> "none", columns |-> <<>>, values |-> <<>>, errors |-> <<>>,
     raised |-> FALSE]

\* Nothing but the one caller's operations is going on.
SideIdle ==
    /\ threads = [t \in Threads |-> NoThread]
    /\ sessions = [s \in SessionIds |-> NoSessionObject]
    /\ shell = NoShell
    /\ asserted = NoAsserted

\* MySQLAlchemy.__init__: the registry is built and the tables are created.
Init ==
    /\ SideIdle
    /\ models_list \in Registrations
    /\ init_models = List(models_list)
    /\ prev = NoPrev
    /\ models_list_names = ModelsListNames(models_list)
    /\ store = [t \in Tables |-> <<>>]
    /\ clock = 0
    /\ pc = "idle"
    /\ call = NoCall
    /\ session = NoSession
    /\ log = <<>>
    /\ opened = 0
    /\ exc = NoError
    /\ retval = NoValue
    /\ result = NoResult
    /\ store_before = store

\* ------------------------------------------------------------ construction
\* isinstance(model, type): a class has a __name__ and a base, any other
\* value (here the string "a") does not.
IsClass(x) == "base" \in DOMAIN x

\* issubclass(model, StandardModel)
IsStandardModel(x) == x.base = "StandardModel"

\* getattr(model, "__name__", str(model))
NameOf(x) == IF IsClass(x) THEN x.name ELSE "a"

\* What a caller may pass as `models`: a value that is no list, or a list
\* of up to MaxModels classes and other values.
Entries == Classes \cup {StrV(1)}

RegistryInputs ==
    {IntV(1)}
    \cup {List(l) : l \in UNION {[1..n -> Entries] : n \in 0..MaxModels}}

\* ModelsHandler.__post_init__: the error it raises, or the registry.
PostInit(given) ==
    LET Raise(type, names, msg) ==
            [err |-> [NoError EXCEPT !.type = type, !.check = "models_list",
                                      !.names = names, !.msg = msg],
             models_list |-> <<>>, models_list_names |-> <<>>]
    IN  IF given.t # "list"
        THEN Raise("TypeError", {}, "models_list must be a list")
        ELSE IF given.v = <<>>
        THEN Raise("ValueError", {}, "models_list cannot be empty")
        ELSE LET rejected ==
                     {i \in DOMAIN given.v :
                         ~IsClass(given.v[i]) \/ ~IsStandardModel(given.v[i])}
             IN  IF rejected # {}
                 THEN Raise("ValueError",
                            {NameOf(given.v[CHOOSE i \in rejected :
                                               \A j \in rejected : i <= j])},
                            "must inherit from StandardModel")
                 ELSE [err |-> NoError, models_list |-> given.v,
                       models_list_names |-> ModelsListNames(given.v)]

\* MySQLAlchemy(database_url, models) is called: nothing is built yet.
InitRegistry ==
    /\ SideIdle
    /\ init_models \in RegistryInputs
    /\ models_list = <<>>
    /\ models_list_names = <<>>
    /\ store = [t \in Tables |-> <<>>]
    /\ clock = 0
    /\ pc = "constructing"
    /\ call = NoCall
    /\ session = NoSession
    /\ log = <<>>
    /\ opened = 0
    /\ exc = NoError
    /\ retval = NoValue
    /\ result = NoResult
    /\ store_before = store
    /\ prev = NoPrev

\* ModelsHandler(models_list=models) returns and __init__ goes on to create
\* the engine and the tables.
ConstructOk ==
    /\ pc = "constructing"
    /\ LET r == PostInit(init_models)
       IN  /\ r.err = NoError
           /\ models_list' = r.models_list
           /\ models_list_names' = r.models_list_names
    /\ pc' = "idle"
    /\ UNCHANGED <<side, init_models, prev, store, clock, call, session, log,
                   opened, exc, retval, result, store_before>>

\* ModelsHandler(models_list=models) raises: __init__ raises and there is
\* no MySQLAlchemy object.
ConstructRaise ==
    /\ pc = "constructing"
    /\ LET r == PostInit(init_models)
       IN  /\ r.err # NoError
           /\ result' = [kind |-> "raised", value |-> NoValue, exc |-> r.err]
    /\ pc' = "unconstructed"
    /\ UNCHANGED <<side, init_models, prev, models_list, models_list_names, store,
                   clock, call, session, log, opened, exc, retval,
                   store_before>>

NextRegistry ==
    \/ ConstructOk
    \/ ConstructRaise

SpecRegistry == InitRegistry /\ [][NextRegistry]_vars

\* --------------------------------------------------------------- operations
\* Time passes between two operations.
Tick ==
    /\ pc = "idle"
    /\ clock < MaxClock
    /\ clock' = clock + 1
    /\ UNCHANGED <<side, init_models, prev, models_list, models_list_names, store,
                   pc, call, session, log, opened, exc, retval, result,
                   store_before>>

\* A call that registers the model it is given when the registry does not
\* know it.
Begin_RegistersModel(c, err) ==
    /\ pc = "idle"
    /\ call' = c
    /\ store_before' = store
    /\ session' = NoSession
    /\ log' = <<>>
    /\ opened' = 0
    /\ exc' = NoError
    /\ retval' = NoValue
    /\ IF err = NoError
       THEN /\ pc' = "validated"
            /\ result' = NoResult
       ELSE /\ pc' = "done"
            /\ result' = [kind |-> "raised", value |-> NoValue, exc |-> err]
    /\ IF \E i \in DOMAIN models_list : models_list[i] = c.model
       THEN UNCHANGED <<models_list, models_list_names>>
       ELSE /\ models_list' = Append(models_list, c.model)
            /\ models_list_names' = Append(models_list_names, c.model.name)
    /\ UNCHANGED <<side, init_models, prev, store, clock>>

\* The caller issues an operation: `c` is the call with the arguments as the
\* validation leaves them, `err` the first validation error.  A validation
\* error is raised to the caller at once; otherwise the operation goes on to
\* `with self.get_session()`.
Begin(c, err) ==
    /\ pc = "idle"
    /\ call' = c
    /\ store_before' = store
    /\ session' = NoSession
    /\ log' = <<>>
    /\ opened' = 0
    /\ exc' = NoError
    /\ retval' = NoValue
    /\ IF err = NoError
       THEN /\ pc' = "validated"
            /\ result' = NoResult
       ELSE /\ pc' = "done"
            /\ result' = [kind |-> "raised", value |-> NoValue, exc |-> err]
    /\ UNCHANGED <<side, init_models, prev, models_list, models_list_names, store,
                   clock>>

\* ------------------------------------------------------------- get_session
\* session = self.SessionLocal()
Acquire ==
    /\ pc = "validated"
    /\ pc' = "acquired"
    /\ session' = [state |-> "open", new |-> <<>>, view |-> store]
    /\ opened' = opened + 1
    /\ UNCHANGED <<side, init_models, prev, models_list, models_list_names, store,
                   clock, call, log, exc, retval, result, store_before>>

\* yield session
Yield ==
    /\ pc = "acquired"
    /\ pc' = "executing"
    /\ UNCHANGED <<side, init_models, prev, models_list, models_list_names, store,
                   clock, call, session, log, opened, exc, retval, result,
                   store_before>>

\* What the body of the `with` block does to the session: add_all for add,
\* execute of the statement for the others.  `refused` tells that the
\* database raises instead.
Executed(c, view) ==
    LET t == c.model.name
        rows == view[t]
    IN  CASE c.op = "add" ->
               [view |-> view, new |-> c.data, refused |-> FALSE,
                value |-> [NoValue EXCEPT !.success = TRUE]]
          [] c.op = "delete" ->
               [view |-> [view EXCEPT ![t] = NotMatching(rows, c.query_kwargs)],
                new |-> <<>>, refused |-> FALSE,
                value |-> [NoValue EXCEPT
                             !.number = Len(Matching(rows, c.query_kwargs))]]
          [] c.op = "update" ->
               [view |-> [view EXCEPT ![t] = UpdateRows(rows, c.query_kwargs,
                                                       c.data_to_be_updated)],
                new |-> <<>>,
                refused |-> UpdateRefused(c.model, rows, c.query_kwargs,
                                          c.data_to_be_updated),
                value |-> [NoValue EXCEPT
                             !.number = Len(Matching(rows, c.query_kwargs))]]
          [] c.op = "get" ->
               [view |-> view, new |-> <<>>, refused |-> FALSE,
                value |-> [NoValue EXCEPT
                             !.rows = SelectRows(c.model, rows, c.query_kwargs,
                                                 c.columns_to_order_by, c.limit,
                                                 c.columns_to_return)]]
          [] c.op = "count" ->
               [view |-> view, new |-> <<>>, refused |-> FALSE,
                value |-> [NoValue EXCEPT
                             !.number = Len(Matching(rows, c.query_kwargs))]]

SessionMethod(c) == IF c.op = "add" THEN "add_all" ELSE "execute"

\* A body whose get consumes what it reads: the rows it returns leave the
\* table.
BodyOk_GetConsumes ==
    /\ pc = "executing"
    /\ LET e == Executed(call, session.view)
           t == call.model.name
       IN  /\ ~e.refused
           /\ session' =
                 [session EXCEPT
                    !.view = IF call.op = "get"
                             THEN [e.view EXCEPT
                                     ![t] = NotMatching(e.view[t],
                                                        call.query_kwargs)]
                             ELSE e.view,
                    !.new = e.new]
           /\ retval' = e.value
    /\ log' = Append(log, SessionMethod(call))
    /\ pc' = "body_done"
    /\ UNCHANGED <<side, init_models, prev, models_list, models_list_names, store,
                   clock, call, opened, exc, result, store_before>>

\* The body of the `with` block runs to its return statement.
BodyOk ==
    /\ pc = "executing"
    /\ LET e == Executed(call, session.view)
       IN  /\ ~e.refused
           /\ session' = [session EXCEPT !.view = e.view, !.new = e.new]
           /\ retval' = e.value
    /\ log' = Append(log, SessionMethod(call))
    /\ pc' = "body_done"
    /\ UNCHANGED <<side, init_models, prev, models_list, models_list_names, store,
                   clock, call, opened, exc, result, store_before>>

\* The body of the `with` block raises: the database refuses the statement,
\* or the driver fails.
BodyRaise ==
    /\ pc = "executing"
    /\ exc' = DriverError(IF Executed(call, session.view).refused
                          THEN "statement refused" ELSE "statement failed")
    /\ log' = Append(log, SessionMethod(call))
    /\ pc' = "failed"
    /\ UNCHANGED <<side, init_models, prev, models_list, models_list_names, store,
                   clock, call, session, opened, retval, result,
                   store_before>>

\* The transaction's view after session.commit() has flushed the pending
\* instances.
Flushed(c, s, now) ==
    Flush(c.model, s.view[c.model.name], s.new, now)

\* session.commit() succeeds: the transaction's view becomes the store.
CommitOk ==
    /\ pc = "body_done"
    /\ LET f == Flushed(call, session, clock)
           committed == [session.view EXCEPT ![call.model.name] = f.rows]
       IN  /\ f.ok
           /\ store' = committed
           /\ session' = [session EXCEPT !.view = committed, !.new = <<>>]
    /\ log' = Append(log, "commit")
    /\ pc' = "committed"
    /\ UNCHANGED <<side, init_models, prev, models_list, models_list_names, clock,
                   call, opened, exc, retval, result, store_before>>

\* commit that leaves durable what the flush inserted before it failed.
CommitRaise_KeepsFlushed ==
    /\ pc = "body_done"
    /\ LET f == Flush(call.model, session.view[call.model.name], session.new,
                      clock)
       IN  /\ session' = [session EXCEPT !.view[call.model.name] = f.rows]
           /\ store' = [session.view EXCEPT ![call.model.name] = f.rows]
           /\ exc' = DriverError(IF f.ok THEN "commit failed"
                                 ELSE "flush refused")
    /\ log' = Append(log, "commit")
    /\ pc' = "failed"
    /\ UNCHANGED <<side, init_models, prev, models_list, models_list_names, clock,
                   call, opened, retval, result, store_before>>

\* session.commit() raises: the database refuses an INSERT of the flush, or
\* the driver fails.  What the flush inserted stays in the transaction.
CommitRaise ==
    /\ pc = "body_done"
    /\ LET f == Flushed(call, session, clock)
       IN  /\ session' = [session EXCEPT !.view[call.model.name] = f.rows]
           /\ exc' = DriverError(IF f.ok THEN "commit failed"
                                 ELSE "flush refused")
    /\ log' = Append(log, "commit")
    /\ pc' = "failed"
    /\ UNCHANGED <<side, init_models, prev, models_list, models_list_names, store,
                   clock, call, opened, retval, result, store_before>>

\* An except clause that re-raises without session.rollback().
Rollback_NotCalled ==
    /\ pc = "failed"
    /\ pc' = "rolledback"
    /\ UNCHANGED <<side, init_models, prev, models_list, models_list_names, store,
                   clock, call, session, log, opened, exc, retval, result,
                   store_before>>

\* An except clause that closes the session itself after the rollback,
\* ahead of the close of the finally clause.
Rollback_ClosesToo ==
    /\ pc = "failed"
    /\ session' = [session EXCEPT !.view = store, !.new = <<>>,
                                  !.state = "closed"]
    /\ log' = log \o <<"rollback", "close">>
    /\ pc' = "rolledback"
    /\ UNCHANGED <<side, init_models, prev, models_list, models_list_names, store,
                   clock, call, opened, exc, retval, result, store_before>>

\* A scope that retries once: after the rollback the operation starts
\* over with a new session instead of raising.
Rollback_ThenRetry ==
    /\ pc = "failed"
    /\ session' = [session EXCEPT !.view = store, !.new = <<>>]
    /\ log' = Append(log, "rollback")
    /\ IF opened < 2
       THEN pc' = "validated" /\ exc' = NoError
       ELSE pc' = "rolledback" /\ exc' = exc
    /\ UNCHANGED <<side, init_models, prev, models_list, models_list_names, store,
                   clock, call, opened, retval, result, store_before>>

\* except Exception: session.rollback(); raise
Rollback ==
    /\ pc = "failed"
    /\ session' = [session EXCEPT !.view = store, !.new = <<>>]
    /\ log' = Append(log, "rollback")
    /\ pc' = "rolledback"
    /\ UNCHANGED <<side, init_models, prev, models_list, models_list_names, store,
                   clock, call, opened, exc, retval, result, store_before>>

\* session.close() at the end of the try block instead of in finally: the
\* session is closed only when commit succeeded.
Close_OnlyAfterCommit ==
    /\ pc \in {"committed", "rolledback"}
    /\ session' = [session EXCEPT
                     !.state = IF pc = "committed" THEN "closed" ELSE @]
    /\ log' = IF pc = "committed" THEN Append(log, "close") ELSE log
    /\ pc' = "released"
    /\ UNCHANGED <<side, init_models, prev, models_list, models_list_names, store,
                   clock, call, opened, exc, retval, result, store_before>>

\* finally: session.close()
Close ==
    /\ pc \in {"committed", "rolledback"}
    /\ session' = [session EXCEPT !.state = "closed"]
    /\ log' = Append(log, "close")
    /\ pc' = "released"
    /\ UNCHANGED <<side, init_models, prev, models_list, models_list_names, store,
                   clock, call, opened, exc, retval, result, store_before>>

\* add without its try/except: the exception reaches the caller of add.
Outcome_AddRaises(c, e, value) ==
    IF e = NoError
    THEN [kind |-> "returned", value |-> value, exc |-> NoError]
    ELSE [kind |-> "raised", value |-> NoValue, exc |-> e]

\* What the caller gets once the scope is left: the value the body
\* returned, or the exception in flight, which add catches and turns into
\* a failure result.
Outcome(c, e, value) ==
    IF e = NoError
    THEN [kind |-> "returned", value |-> value, exc |-> NoError]
    ELSE IF c.op = "add"
    THEN [kind |-> "returned",
          value |-> [NoValue EXCEPT !.success = FALSE, !.error = StrOf(e)],
          exc |-> NoError]
    ELSE [kind |-> "raised", value |-> NoValue, exc |-> e]

\* The operation returns to its caller.
Return ==
    /\ pc = "released"
    /\ result' = Outcome(call, exc, retval)
    /\ pc' = "done"
    /\ UNCHANGED <<side, init_models, prev, models_list, models_list_names, store,
                   clock, call, session, log, opened, exc, retval,
                   store_before>>

\* ---------------------------------------------------------------- the calls
\* An item of the `data` list of add: a dict, a model instance, or anything
\* else; `vals` are the dict's entries or the attributes the instance has.
Dict(vals) == [kind |-> "dict", cls |-> "dict", vals |-> vals]
Instance(cls, vals) == [kind |-> "instance", cls |-> cls.name, vals |-> vals]
Other == [kind |-> "other", cls |-> "str", vals |-> EmptyDict]

\* add, lines 228-247: the items are validated one position at a time and a
\* valid dict is replaced by the instance built from it; the result is the
\* list as the loop leaves it and the error that stopped it.
RECURSIVE ValidateItems(_, _, _)
ValidateItems(model, data, i) ==
    IF i > Len(data) THEN [data |-> data, err |-> NoError]
    ELSE LET item == data[i]
             msg == " when adding new instances."
         IN  IF item.kind = "dict"
             THEN LET e == AssertColumnsInModel(model, DOMAIN item.vals, TRUE,
                                                TRUE, None, msg)
                  IN  IF e # NoError THEN [data |-> data, err |-> e]
                      ELSE ValidateItems(
                               model,
                               [data EXCEPT ![i] = Instance(model, item.vals)],
                               i + 1)
             ELSE IF item.kind = "instance" /\ item.cls = model.name
             THEN LET e == AssertColumnsInModel(model, get_columns(model),
                                                TRUE, FALSE,
                                                Attr(item.vals, "id"), msg)
                  IN  IF e # NoError THEN [data |-> data, err |-> e]
                      ELSE ValidateItems(model, data, i + 1)
             ELSE [data |-> data,
                   err |-> [NoError EXCEPT !.type = "AssertionError",
                                           !.check = "item",
                                           !.names = {item.cls},
                                           !.msg = "is invalid",
                                           !.position = i - 1]]

\* add that builds the instances into a list of its own and leaves the
\* caller's list as it was.
ValidateAdd_LeavesList(models, names, model, data) ==
    LET e == AssertModel(models, names, model)
    IN  IF e # NoError THEN [data |-> data, err |-> e]
        ELSE [data |-> data, err |-> ValidateItems(model, data, 1).err]

\* add, lines 227-247
ValidateAdd(models, names, model, data) ==
    LET e == AssertModel(models, names, model)
    IN  IF e # NoError THEN [data |-> data, err |-> e]
        ELSE ValidateItems(model, data, 1)

\* delete, lines 265-266, and count, lines 360-361
ValidateFilter(models, names, model, query_kwargs) ==
    FirstError(<<AssertModel(models, names, model),
                 AssertColumnsInModel(model, DOMAIN query_kwargs, FALSE, TRUE,
                                      None, "")>>)

\* get, lines 295-300
ValidateGet(models, names, model, query_kwargs, columns_to_return, columns_to_order_by) ==
    FirstError(<<AssertModel(models, names, model),
                 AssertColumnsInModel(model, DOMAIN query_kwargs, FALSE, TRUE,
                                      None, ""),
                 IF columns_to_return # <<>>
                 THEN AssertColumnsInModel(model, Range(columns_to_return),
                                           FALSE, TRUE, None, "")
                 ELSE NoError,
                 IF columns_to_order_by # <<>>
                 THEN AssertColumnsInModel(
                          model,
                          {columns_to_order_by[i][1] :
                               i \in DOMAIN columns_to_order_by},
                          FALSE, TRUE, None, "")
                 ELSE NoError>>)

\* update, lines 332-339
ValidateUpdate(models, names, model, data_to_be_updated, query_kwargs) ==
    FirstError(<<AssertModel(models, names, model),
                 AssertColumnsInModel(model, DOMAIN query_kwargs, FALSE, TRUE,
                                      None, ""),
                 AssertColumnsInModel(
                     model, DOMAIN data_to_be_updated, TRUE, TRUE, None,
                     " in the updated values when updating instances.")>>)

\* update that keeps the updated_at its caller gave (a setdefault).
WithUpdatedAt_KeepsCallers(data_to_be_updated, now) ==
    [c \in DOMAIN data_to_be_updated \cup {"updated_at"} |->
        IF c \in DOMAIN data_to_be_updated THEN data_to_be_updated[c]
        ELSE DtV(now)]

\* update, line 341: data_to_be_updated["updated_at"] = utils.utc_now()
WithUpdatedAt(data_to_be_updated, now) ==
    [c \in DOMAIN data_to_be_updated \cup {"updated_at"} |->
        IF c = "updated_at" THEN DtV(now) ELSE data_to_be_updated[c]]

\* The arguments the caller draws from.
ItemA == Dict([name |-> StrV(1)])
ItemB == Dict([name |-> StrV(2)])
ItemUnknown == Dict([foo |-> IntV(1), name |-> StrV(1)])

Batches ==
    {<<>>,
     <<ItemA>>,
     <<ItemA, ItemB>>,
     <<Dict(EmptyDict)>>,
     <<ItemB, Dict([name |-> None])>>,
     <<Dict([name |-> IntV(7)])>>,
     <<Dict([id |-> IntV(1), name |-> StrV(1)])>>,
     <<ItemA, Dict([id |-> IntV(1), name |-> StrV(2)])>>,
     <<Dict([name |-> StrV(1), updated_at |-> DtV(1)])>>,
     <<ItemUnknown>>,
     <<Dict([id |-> IntV(1), foo |-> IntV(1)])>>,
     <<Instance(MockModel, [name |-> StrV(2)])>>,
     <<Instance(MockModel, [id |-> IntV(1), name |-> StrV(1)])>>,
     <<ItemA, Instance(ValidModel, [name |-> StrV(1)])>>,
     <<Other>>}

AddArgs ==
    ({MockModel} \X Batches)
    \cup ({ValidModel} \X {<<ItemUnknown>>})
    \cup ({InvalidModel} \X {<<ItemA>>, <<ItemUnknown>>})

Filters ==
    {EmptyDict, [name |-> StrV(1)], [id |-> IntV(1)], [foo |-> IntV(1)],
     [name |-> StrV(1), foo |-> IntV(1)]}

FilterArgs ==
    ({MockModel} \X Filters)
    \cup ({ValidModel} \X {EmptyDict})
    \cup ({InvalidModel} \X {EmptyDict, [foo |-> IntV(1)]})

Payloads ==
    {EmptyDict, [name |-> StrV(2)], [name |-> None], [name |-> IntV(7)],
     [id |-> IntV(2)], [foo |-> IntV(1)], [id |-> IntV(2), foo |-> IntV(1)],
     [updated_at |-> DtV(0), name |-> StrV(1)], [created_at |-> DtV(0)]}

UpdateArgs ==
    ({MockModel} \X Payloads \X {EmptyDict, [id |-> IntV(1)]})
    \cup ({MockModel} \X {[name |-> StrV(2)], [id |-> IntV(2)]}
                     \X {[foo |-> IntV(1)]})
    \cup ({ValidModel} \X {[name |-> None]} \X {EmptyDict})
    \cup ({InvalidModel} \X {[name |-> StrV(2)], [foo |-> IntV(1)]}
                        \X {EmptyDict})

\* <<query_kwargs, limit, columns_to_return, columns_to_order_by>>
Queries ==
    (Filters \X {None} \X {<<>>} \X {<<>>})
    \cup ({EmptyDict} \X {IntV(0), IntV(-1), IntV(1)} \X {<<>>} \X {<<>>})
    \cup ({EmptyDict} \X {IntV(1)} \X {<<>>} \X {<<<<"name", FALSE>>>>})
    \cup ({EmptyDict} \X {None} \X {<<"name">>, <<"foo">>}
                      \X {<<>>, <<<<"foo", TRUE>>>>})
    \cup ({[name |-> StrV(1)]} \X {None} \X {<<"name", "id">>} \X {<<>>})
    \cup ({EmptyDict} \X {None} \X {<<>>}
                      \X {<<<<"name", FALSE>>>>, <<<<"name", TRUE>>>>,
                          <<<<"name", TRUE>>, <<"id", FALSE>>>>,
                          <<<<"foo", TRUE>>>>})

GetArgs ==
    ({MockModel} \X Queries)
    \cup ({ValidModel} \X {<<EmptyDict, None, <<>>, <<>> >>})
    \cup ({InvalidModel} \X {<<EmptyDict, None, <<>>, <<>> >>,
                             <<[foo |-> IntV(1)], None, <<>>, <<>> >>})

\* add(model, data)
CallAdd ==
    /\ pc = "idle"
    /\ \E a \in AddArgs :
           LET model == a[1]
               v == ValidateAdd(models_list, models_list_names, model, a[2])
           IN  /\ model.name \in Tables =>
                      MaxId(store[model.name]) + Len(a[2]) <= MaxRows
               /\ Begin([NoCall EXCEPT !.op = "add", !.model = model,
                                       !.items = a[2], !.data = v.data],
                        v.err)

\* delete(model, **query_kwargs)
CallDelete ==
    /\ pc = "idle"
    /\ \E a \in FilterArgs :
           Begin([NoCall EXCEPT !.op = "delete", !.model = a[1],
                                !.query_kwargs = a[2]],
                 ValidateFilter(models_list, models_list_names, a[1], a[2]))

\* count(model, **query_kwargs)
CallCount ==
    /\ pc = "idle"
    /\ \E a \in FilterArgs :
           Begin([NoCall EXCEPT !.op = "count", !.model = a[1],
                                !.query_kwargs = a[2]],
                 ValidateFilter(models_list, models_list_names, a[1], a[2]))

\* get(model, limit, columns_to_return, columns_to_order_by, **query_kwargs)
CallGet ==
    /\ pc = "idle"
    /\ \E a \in GetArgs :
           LET q == a[2]
           IN  Begin([NoCall EXCEPT !.op = "get", !.model = a[1],
                                    !.query_kwargs = q[1], !.limit = q[2],
                                    !.columns_to_return = q[3],
                                    !.columns_to_order_by = q[4]],
                     ValidateGet(models_list, models_list_names, a[1], q[1],
                                 q[3], q[4]))

\* update(model, data_to_be_updated, **query_kwargs)
CallUpdate ==
    /\ pc = "idle"
    /\ \E a \in UpdateArgs :
           LET err == ValidateUpdate(models_list, models_list_names, a[1], a[2],
                                     a[3])
           IN  Begin([NoCall EXCEPT
                        !.op = "update", !.model = a[1], !.query_kwargs = a[3],
                        !.column_values = a[2],
                        !.data_to_be_updated =
                            IF err = NoError THEN WithUpdatedAt(a[2], clock)
                            ELSE a[2]],
                     err)

\* The caller issues a call at once after the one that has just returned:
\* `c` is the new call, which passes validation.
BeginNext(c) ==
    /\ pc = "done"
    /\ result.kind = "returned"
    /\ prev' = [call |-> call, value |-> result.value,
                store_before |-> store_before]
    /\ call' = c
    /\ store_before' = store
    /\ session' = NoSession
    /\ log' = <<>>
    /\ opened' = 0
    /\ exc' = NoError
    /\ retval' = NoValue
    /\ result' = NoResult
    /\ pc' = "validated"
    /\ UNCHANGED <<side, init_models, models_list, models_list_names, store,
                   clock>>

\* get(...) again, with the arguments of the get that has just returned
\* (a get by filter and limit).
CallGetAgain ==
    /\ call.op = "get"
    /\ call.columns_to_return = <<>>
    /\ call.columns_to_order_by = <<>>
    /\ BeginNext(call)

\* get(model, name=x) right after an add of the one row {name: x} succeeded.
CallGetAdded ==
    /\ call.op = "add"
    /\ result.value.success
    /\ Len(call.data) = 1
    /\ DOMAIN call.data[1].vals = {"name"}
    /\ call.data[1].vals["name"].t = "str"
    /\ BeginNext([NoCall EXCEPT
                     !.op = "get", !.model = call.model,
                     !.query_kwargs = [name |-> call.data[1].vals["name"]]])

\* count(model, **query_kwargs) right after a get(model, **query_kwargs)
\* without limit returned.
CallCountGot ==
    /\ call.op = "get"
    /\ call.limit = None
    /\ call.columns_to_return = <<>>
    /\ call.columns_to_order_by = <<>>
    /\ BeginNext([NoCall EXCEPT !.op = "count", !.model = call.model,
                                !.query_kwargs = call.query_kwargs])

\* The caller has its result and the frame of the operation is gone.
Done ==
    /\ pc = "done"
    /\ pc' = "idle"
    /\ call' = NoCall
    /\ session' = NoSession
    /\ log' = <<>>
    /\ opened' = 0
    /\ exc' = NoError
    /\ retval' = NoValue
    /\ result' = NoResult
    /\ store_before' = store
    /\ prev' = NoPrev
    /\ UNCHANGED <<side, init_models, models_list, models_list_names, store,
                   clock>>

Next ==
    \/ Tick
    \/ CallAdd
    \/ CallDelete
    \/ CallCount
    \/ CallGet
    \/ CallUpdate
    \/ CallGetAgain
    \/ CallGetAdded
    \/ CallCountGot
    \/ Acquire
    \/ Yield
    \/ BodyOk
    \/ BodyRaise
    \/ CommitOk
    \/ CommitRaise
    \/ Rollback
    \/ Close
    \/ Return
    \/ Done

Spec == Init /\ [][Next]_vars

\* ------------------------------------------------------------------ threads
\* Several threads call add, get, update, delete and count of one
\* MySQLAlchemy object at once (the engine is created with
\* check_same_thread False).  Each call runs get_session in its own
\* generator frame, whose local variable `session` is the object
\* self.SessionLocal() returned to it.  The steps of the threads interleave
\* freely.  The rows are those of Spec; here a statement is a method called
\* on a Session object.
Ops == {"add", "get", "update", "delete", "count"}

\* The methods called on session `s` so far, with `m` called by thread `t`.
Called(s, t, m) == [sessions EXCEPT ![s].log = Append(@, <<t, m>>)]

\* A thread calls an operation and the validation passes.
ThreadCall ==
    \E t \in Threads, op \in Ops :
        /\ threads[t].pc = "idle"
        /\ threads' = [threads EXCEPT
                         ![t] = [NoThread EXCEPT !.op = op,
                                                 !.pc = "validated"]]
        /\ UNCHANGED <<core, sessions, shell, asserted>>

\* A get_session that hands out one session kept on the object
\* (self.session) instead of a new one per call.
ThreadAcquire_SharedSession ==
    \E t \in Threads :
        /\ threads[t].pc = "validated"
        /\ LET open == {s \in SessionIds : sessions[s].state = "open"}
               free == {s \in SessionIds : sessions[s].state = "free"}
               s == IF open # {} THEN CHOOSE x \in open : TRUE
                    ELSE CHOOSE x \in free : \A y \in free : x <= y
           IN  /\ sessions' = [sessions EXCEPT ![s].state = "open"]
               /\ threads' = [threads EXCEPT ![t].pc = "executing",
                                             ![t].session = s,
                                             ![t].opened = @ + 1]
        /\ UNCHANGED <<core, shell, asserted>>

\* session = self.SessionLocal(): the sessionmaker builds a new Session
\* object, one that no frame holds, and the frame yields it to the body.
ThreadAcquire ==
    \E t \in Threads :
        /\ threads[t].pc = "validated"
        /\ LET free == {s \in SessionIds : sessions[s].state = "free"}
               s == CHOOSE x \in free : \A y \in free : x <= y
           IN  /\ sessions' = [sessions EXCEPT
                                 ![s] = [state |-> "open", log |-> <<>>]]
               /\ threads' = [threads EXCEPT ![t].pc = "executing",
                                             ![t].session = s,
                                             ![t].opened = @ + 1]
        /\ UNCHANGED <<core, shell, asserted>>

\* The body of the `with` block runs to its return statement.
ThreadBodyOk ==
    \E t \in Threads :
        /\ threads[t].pc = "executing"
        /\ sessions' = Called(threads[t].session, t, SessionMethod(threads[t]))
        /\ threads' = [threads EXCEPT ![t].pc = "body_done"]
        /\ UNCHANGED <<core, shell, asserted>>

\* The body of the `with` block raises.
ThreadBodyRaise ==
    \E t \in Threads :
        /\ threads[t].pc = "executing"
        /\ sessions' = Called(threads[t].session, t, SessionMethod(threads[t]))
        /\ threads' = [threads EXCEPT
                         ![t].pc = "failed",
                         ![t].exc = DriverError("statement failed")]
        /\ UNCHANGED <<core, shell, asserted>>

\* session.commit() succeeds.
ThreadCommitOk ==
    \E t \in Threads :
        /\ threads[t].pc = "body_done"
        /\ sessions' = Called(threads[t].session, t, "commit")
        /\ threads' = [threads EXCEPT ![t].pc = "committed"]
        /\ UNCHANGED <<core, shell, asserted>>

\* session.commit() raises.
ThreadCommitRaise ==
    \E t \in Threads :
        /\ threads[t].pc = "body_done"
        /\ sessions' = Called(threads[t].session, t, "commit")
        /\ threads' = [threads EXCEPT
                         ![t].pc = "failed",
                         ![t].exc = DriverError("commit failed")]
        /\ UNCHANGED <<core, shell, asserted>>

\* except Exception: session.rollback(); raise
ThreadRollback ==
    \E t \in Threads :
        /\ threads[t].pc = "failed"
        /\ sessions' = Called(threads[t].session, t, "rollback")
        /\ threads' = [threads EXCEPT ![t].pc = "rolledback"]
        /\ UNCHANGED <<core, shell, asserted>>

\* finally: session.close()
ThreadClose ==
    \E t \in Threads :
        /\ threads[t].pc \in {"committed", "rolledback"}
        /\ sessions' =
              [Called(threads[t].session, t, "close") EXCEPT
                 ![threads[t].session].state = "closed"]
        /\ threads' = [threads EXCEPT ![t].pc = "released"]
        /\ UNCHANGED <<core, shell, asserted>>

\* The operation returns (or raises) to the thread that called it; the
\* frame is gone and with it the last reference to its Session object.
ThreadReturn ==
    \E t \in Threads :
        /\ threads[t].pc = "released"
        /\ threads' = [threads EXCEPT ![t] = NoThread]
        /\ sessions' = [sessions EXCEPT
                          ![threads[t].session] = NoSessionObject]
        /\ UNCHANGED <<core, shell, asserted>>

NextThreads ==
    \/ ThreadCall
    \/ ThreadAcquire
    \/ ThreadBodyOk
    \/ ThreadBodyRaise
    \/ ThreadCommitOk
    \/ ThreadCommitRaise
    \/ ThreadRollback
    \/ ThreadClose
    \/ ThreadReturn

SpecThreads == Init /\ [][NextThreads]_vars

\* ------------------------------------------------------------- command line
\* manager.py: the DatabaseManager and the cli function.  A run of cli is
\* the parsed arguments, the line the user will type when asked, what gets
\* printed and the DatabaseManager methods that get called, in order.  What
\* these methods do to the database file is not part of the state.
\* def __init__(self, database_url, models), my_sqlalchemy.py line 26
InitParameters == {"database_url", "models"}

\* super().__init__(database_url=database_url), manager.py line 16
ManagerPasses == {"database_url"}

\* DatabaseManager(database_url): the call of MySQLAlchemy.__init__ binds
\* its arguments first and raises TypeError for a parameter that has no
\* value; otherwise it sets the attributes of lines 33-44.
ManagerInit(database_url) ==
    LET missing == InitParameters \ ManagerPasses
    IN  IF missing # {}
        THEN [err |-> [NoError EXCEPT
                         !.type = "TypeError", !.check = "arguments",
                         !.names = missing,
                         !.msg = "missing required positional argument"],
              manager |-> NoShell.manager]
        ELSE [err |-> NoError,
              manager |-> [database_url |-> database_url,
                           attrs |-> {"database_url", "models", "base",
                                      "engine", "SessionLocal"}]]

\* The subcommands the parser knows, lines 140-149, and the method each
\* one calls.
Commands ==
    {"create", "drop", "reset", "info", "backup", "restore", "vacuum",
     "init-package"}

Asks == {"drop", "reset", "restore"}

MethodOf(command) ==
    CASE command = "create" -> <<"create_database">>
      [] command = "drop" -> <<"drop_database">>
      [] command = "reset" -> <<"reset_database">>
      [] command = "info" -> <<"print_database_info">>
      [] command = "backup" -> <<"backup_database">>
      [] command = "restore" -> <<"restore_database">>
      [] command = "vacuum" -> <<"vacuum_database">>
      [] OTHER -> <<>>

\* confirm.lower()
Lower(text) == IF text = "Y" THEN "y" ELSE IF text = "YES" THEN "yes" ELSE text

\* What the user may type at the prompt.
Answers == {"y", "Y", "n", "", "YES"}

\* The runs of cli: args after parser.parse_args() (command "" when none
\* was given; --path only with backup, path always with restore).
ShellInputs ==
    {[NoShell EXCEPT !.pc = "parsed", !.command = c[1], !.path = c[2],
                     !.db_url = u, !.answer = a] :
        c \in ((Commands \cup {""}) \ {"restore"}) \X {""}
               \cup {<<"backup", "test.backup">>, <<"restore", "test.backup">>},
        u \in {"sqlite:///my_sqlalchemy.db", "postgresql://localhost/db"},
        a \in Answers}

\* cli is started; no MySQLAlchemy object exists in the process.
InitShell ==
    /\ shell \in ShellInputs
    /\ threads = [t \in Threads |-> NoThread]
    /\ sessions = [s \in SessionIds |-> NoSessionObject]
    /\ asserted = NoAsserted
    /\ init_models = None
    /\ models_list = <<>>
    /\ models_list_names = <<>>
    /\ store = [t \in Tables |-> <<>>]
    /\ clock = 0
    /\ pc = "unconstructed"
    /\ call = NoCall
    /\ session = NoSession
    /\ log = <<>>
    /\ opened = 0
    /\ exc = NoError
    /\ retval = NoValue
    /\ result = NoResult
    /\ store_before = store
    /\ prev = NoPrev

\* if not args.command: parser.print_help(); return
CliHelp ==
    /\ shell.pc = "parsed"
    /\ shell.command = ""
    /\ shell' = [shell EXCEPT !.pc = "exited",
                              !.output = <<"My SQLAlchemy Database Manager">>]
    /\ UNCHANGED <<core, threads, sessions, asserted>>

\* cli with a command, lines 154-185: the manager is built, the command's
\* branch runs (the three commands that ask read one line first) and the
\* engine is disposed of.  An exception ends cli where it is raised.
CliCommand ==
    /\ shell.pc = "parsed"
    /\ shell.command # ""
    /\ LET built == ManagerInit(shell.db_url)
           asks == shell.command \in Asks
           yes == Lower(shell.answer) = "y"
       IN  shell' =
             IF built.err # NoError
             THEN [shell EXCEPT !.pc = "raised", !.raised = built.err]
             ELSE [shell EXCEPT
                     !.pc = "exited",
                     !.manager = built.manager,
                     !.prompted = asks,
                     !.invoked = IF asks /\ ~yes THEN <<>>
                                 ELSE MethodOf(shell.command),
                     !.output = IF asks /\ ~yes
                                THEN <<"Operation cancelled">> ELSE <<>>]
    /\ UNCHANGED <<core, threads, sessions, asserted>>

NextShell ==
    \/ CliHelp
    \/ CliCommand

SpecShell == InitShell /\ [][NextShell]_vars

\* ----------------------------------------------------------------- asserter
\* asserter.columns_values_are_same_type(columns, values): the columns are
\* column attributes of the models (key, Python type of the column type,
\* nullable), the values any Python values.
ColumnOf(cls, key) ==
    [key |-> key, python_type |-> TableColumns(cls)[key].python_type,
     nullable |-> TableColumns(cls)[key].nullable]

\* MockModel.name (not nullable), ValidModel.name (nullable) and the id.
ColumnInputs ==
    {ColumnOf(MockModel, "name"), ColumnOf(ValidModel, "name"),
     ColumnOf(MockModel, "id")}

ValueInputs == {None, IntV(1), StrV(1)}

\* isinstance(value, expected_python_type)
IsInstance(value, python_type) == value.t = python_type

\* What the loop of lines 92-102 appends to `errors` for one pair, or
\* nothing.
SameTypeError(column, value) ==
    IF value = None /\ ~column.nullable
    THEN <<[column |-> column.key, value |-> value,
            text |-> "does not accept None values"]>>
    ELSE IF ~IsInstance(value, column.python_type)
    THEN <<[column |-> column.key, value |-> value,
            text |-> "expects values of type"]>>
    ELSE <<>>

\* The list `errors` after the loop over zip(columns, values), which stops
\* at the end of the shorter list.
RECURSIVE SameTypeErrors(_, _)
SameTypeErrors(columns, values) ==
    IF columns = <<>> \/ values = <<>> THEN <<>>
    ELSE SameTypeError(Head(columns), Head(values))
         \o SameTypeErrors(Tail(columns), Tail(values))

\* The function is called with lists of up to MaxPairs columns and values.
InitAsserter ==
    /\ asserted \in
          {[NoAsserted EXCEPT !.pc = "called", !.columns = c, !.values = v] :
              c \in UNION {[1..n -> ColumnInputs] : n \in 0..MaxPairs},
              v \in UNION {[1..n -> ValueInputs] : n \in 0..MaxPairs}}
    /\ threads = [t \in Threads |-> NoThread]
    /\ sessions = [s \in SessionIds |-> NoSessionObject]
    /\ shell = NoShell
    /\ init_models = None
    /\ models_list = <<>>
    /\ models_list_names = <<>>
    /\ store = [t \in Tables |-> <<>>]
    /\ clock = 0
    /\ pc = "unconstructed"
    /\ call = NoCall
    /\ session = NoSession
    /\ log = <<>>
    /\ opened = 0
    /\ exc = NoError
    /\ retval = NoValue
    /\ result = NoResult
    /\ store_before = store
    /\ prev = NoPrev

\* No pair is in error: the function returns None.
SameTypeReturns ==
    /\ asserted.pc = "called"
    /\ SameTypeErrors(asserted.columns, asserted.values) = <<>>
    /\ asserted' = [asserted EXCEPT !.pc = "returned"]
    /\ UNCHANGED <<core, threads, sessions, shell>>

\* if errors: raise TypeError(f"{title}{' | '.join(errors)}")
SameTypeRaises ==
    /\ asserted.pc = "called"
    /\ SameTypeErrors(asserted.columns, asserted.values) # <<>>
    /\ asserted' =
          [asserted EXCEPT
             !.pc = "raised", !.raised = TRUE,
             !.errors = SameTypeErrors(asserted.columns, asserted.values)]
    /\ UNCHANGED <<core, threads, sessions, shell>>

NextAsserter ==
    \/ SameTypeReturns
    \/ SameTypeRaises

SpecAsserter == InitAsserter /\ [][NextAsserter]_vars

\* ------------------------------------------------------------------ claims
Count(seq, x) == Len(SelectSeq(seq, LAMBDA y : y = x))

\* The operation in progress went through get_session.
InScope == opened > 0

\* The scope has been left (the operation is about to return or has returned).
ScopeLeft == InScope /\ pc \in {"released", "done"}

BodyRaised == exc.msg \in {"statement refused", "statement failed"}
CommitRaised == exc.msg \in {"flush refused", "commit failed"}

\* The state of the scope, in the words of the state machine
\* Idle -> Acquired -> Executing -> Committed | RolledBack -> Released.
Scope ==
    CASE pc \in {"idle", "validated"} -> "Idle"
      [] pc = "acquired" -> "Acquired"
      [] pc \in {"executing", "body_done", "failed"} -> "Executing"
      [] pc = "committed" -> "Committed"
      [] pc = "rolledback" -> "RolledBack"
      [] pc = "released" -> "Released"
      [] pc = "done" -> IF InScope THEN "Released" ELSE "Idle"

ScopeEdges ==
    {<<"Idle", "Acquired">>, <<"Acquired", "Executing">>,
     <<"Executing", "Committed">>, <<"Executing", "RolledBack">>,
     <<"Committed", "Released">>, <<"RolledBack", "Released">>,
     <<"Released", "Idle">>}

\* C1: a session acquired by get_session is closed exactly once on every
\* exit path (normal completion, exception of the body, exception of
\* commit), never before the scope is left, and the close comes right after
\* the commit or the rollback; at most one session is acquired and none
\* stays open once the operation has returned.
C1_ClosedExactlyOnce ==
    /\ opened <= 1
    /\ (InScope /\ ~ScopeLeft) => (Count(log, "close") = 0 /\ session.state = "open")
    /\ ScopeLeft =>
          /\ Count(log, "close") = 1
          /\ session.state = "closed"
          /\ Len(log) >= 2
          /\ log[Len(log)] = "close"
          /\ log[Len(log) - 1] \in {"commit", "rollback"}
    /\ ~InScope => (session.state = "none" /\ log = <<>>)

\* C1 witness: the scope was left after commit raised, and the session was
\* closed after the rollback.
C1_Witness ==
    /\ pc = "done"
    /\ CommitRaised
    /\ log = <<"add_all", "commit", "rollback", "close">>

\* C2 as stated: when the scope is left, a body that completed means one
\* commit and no rollback, a body that raised means no commit and one
\* rollback; the exception in flight never changes; the scope follows the
\* state machine.
C2_OriginalStep ==
    /\ ScopeLeft' =>
          /\ ~BodyRaised' => (Count(log', "commit") = 1 /\ Count(log', "rollback") = 0)
          /\ BodyRaised' => (Count(log', "commit") = 0 /\ Count(log', "rollback") = 1)
    /\ (exc # NoError /\ pc # "done") => exc' = exc
    /\ Scope' # Scope => <<Scope, Scope'>> \in ScopeEdges

C2_Original == [][C2_OriginalStep]_vars

\* C2 amended: when the scope is left, a body and a commit that both
\* completed mean one commit and no rollback; a commit that raised means
\* one commit followed by one rollback; a body that raised means no commit
\* and one rollback.  The exception in flight never changes before the
\* operation returns, and the scope moves only along
\* Idle -> Acquired -> Executing -> Committed | RolledBack -> Released.
C2_AmendedStep ==
    /\ ScopeLeft' =>
          /\ exc' = NoError =>
                (Count(log', "commit") = 1 /\ Count(log', "rollback") = 0)
          /\ CommitRaised' =>
                /\ Count(log', "commit") = 1
                /\ Count(log', "rollback") = 1
                /\ log'[Len(log') - 1] = "rollback"
                /\ log'[Len(log') - 2] = "commit"
          /\ BodyRaised' =>
                (Count(log', "commit") = 0 /\ Count(log', "rollback") = 1)
          /\ exc' = NoError \/ CommitRaised' \/ BodyRaised'
    /\ (exc # NoError /\ pc # "done") => exc' = exc
    /\ Scope' # Scope => <<Scope, Scope'>> \in ScopeEdges

C2_CommitOrRollback == [][C2_AmendedStep]_vars

\* C2 witness: the body completed, commit raised, and the scope was left
\* with one commit and one rollback.
C2_Witness ==
    /\ pc = "released"
    /\ CommitRaised
    /\ Count(log, "commit") = 1
    /\ Count(log, "rollback") = 1

\* C3: an exception raised inside the scope of add (by add_all or by
\* commit) is rolled back and comes back as {success: False, error: its
\* message}, and add never raises once it reached the session; the same
\* failure inside get, update, delete or count is rolled back and raised to
\* the caller unchanged.
C3_AddReturnsOthersRaise ==
    (pc = "done" /\ InScope) =>
        /\ call.op = "add" => result.kind = "returned"
        /\ exc = NoError =>
              (result.kind = "returned" /\ result.value = retval)
        /\ exc # NoError =>
              /\ Count(log, "rollback") = 1
              /\ IF call.op = "add"
                 THEN /\ result.value.success = FALSE
                      /\ result.value.error = exc.msg
                 ELSE /\ result.kind = "raised"
                      /\ result.exc = exc

\* C3 witness: add came back with the failure of its commit as a result.
C3_Witness ==
    /\ pc = "done"
    /\ call.op = "add"
    /\ result.kind = "returned"
    /\ result.value.success = FALSE
    /\ result.value.error = "commit failed"

\* The rows the batch of an add adds to its table: row i of the new rows
\* carries the attributes of item i.
BatchStored(before, after, data) ==
    /\ Len(after) = Len(before) + Len(data)
    /\ SubSeq(after, 1, Len(before)) = before
    /\ \A i \in DOMAIN data :
          \A c \in DOMAIN data[i].vals :
              data[i].vals[c] # None =>
                  after[Len(before) + i][c] = data[i].vals[c]

\* C4: add is all-or-nothing: after {success: True} every row of the batch
\* is stored (and nothing else changed); after {success: False} or an
\* exception the store is what it was before the call.
C4_AddAllOrNothing ==
    (pc = "done" /\ call.op = "add") =>
        IF result.kind = "returned" /\ result.value.success
        THEN /\ BatchStored(store_before[call.model.name],
                            store[call.model.name], call.data)
             /\ \A t \in Tables \ {call.model.name} : store[t] = store_before[t]
        ELSE store = store_before

\* C4 witness: a batch of two rows failed on its second row, after the
\* first was flushed, and add reported the failure.
C4_Witness ==
    /\ pc = "done"
    /\ call.op = "add"
    /\ Len(call.data) = 2
    /\ result.value.error = "flush refused"
    /\ store = store_before

\* --- what is wrong with the arguments of a call
Registered(model) == \E i \in DOMAIN models_list : models_list[i] = model

\* The column names a call gives, by argument.
OrderColumns(c) ==
    {c.columns_to_order_by[i][1] : i \in DOMAIN c.columns_to_order_by}

GivenColumns(c) ==
    DOMAIN c.query_kwargs \cup Range(c.columns_to_return) \cup OrderColumns(c)
    \cup DOMAIN c.data_to_be_updated
    \cup UNION {DOMAIN c.data[i].vals : i \in DOMAIN c.data}

Unknown(c, columns) == columns \ get_columns(c.model) # {}

\* An item of data supplies a value for the primary key.
SuppliesPk(item) ==
    /\ "id" \in DOMAIN item.vals
    /\ item.kind = "dict" \/ item.vals["id"] # None

\* A payload gives None to a non-nullable column, or a value that is not
\* of the column's Python type.
TypeViolations(model, vals) ==
    {c \in DOMAIN vals \cap get_columns(model) :
        \/ vals[c] = None /\ ~TableColumns(model)[c].nullable
        \/ vals[c] # None /\ vals[c].t # TableColumns(model)[c].python_type}

PkInPayload(c) ==
    \/ c.op = "add" /\ \E i \in DOMAIN c.data : SuppliesPk(c.data[i])
    \/ c.op = "update" /\ "id" \in DOMAIN c.data_to_be_updated

WriteTypeViolation(c) ==
    \/ c.op = "add" /\ \E i \in DOMAIN c.data :
                           TypeViolations(c.model, c.data[i].vals) # {}
    \/ c.op = "update" /\ TypeViolations(c.model, c.data_to_be_updated) # {}

NonPositiveLimit(c) == c.op = "get" /\ c.limit # None /\ c.limit.v <= 0

Invalid(c) ==
    /\ c.op # "none"
    /\ \/ ~Registered(c.model)
       \/ Unknown(c, GivenColumns(c))
       \/ PkInPayload(c)
       \/ WriteTypeViolation(c)
       \/ NonPositiveLimit(c)

\* The check that fails first, in the order entity-known, columns-known,
\* primary-key-exclusion, value-type-check, for one payload ...
FirstFailingIn(c, item_ok, columns, has_pk, vals) ==
    IF ~item_ok THEN "item"
    ELSE IF Unknown(c, columns) THEN "columns"
    ELSE IF has_pk THEN "primary_key"
    ELSE IF TypeViolations(c.model, vals) # {} THEN "type"
    ELSE "none"

\* ... for the items of an add, taken in their order ...
RECURSIVE FirstFailingItem(_, _)
FirstFailingItem(c, i) ==
    IF i > Len(c.data) THEN "none"
    ELSE LET item == c.data[i]
             f == FirstFailingIn(c,
                                 \/ item.kind = "dict"
                                 \/ item.kind = "instance" /\ item.cls = c.model.name,
                                 DOMAIN item.vals, SuppliesPk(item), item.vals)
         IN  IF f # "none" THEN f ELSE FirstFailingItem(c, i + 1)

\* ... and for a call.
FirstFailing(c) ==
    IF ~Registered(c.model) THEN "model"
    ELSE IF c.op = "add" THEN FirstFailingItem(c, 1)
    ELSE IF Unknown(c, DOMAIN c.query_kwargs \cup Range(c.columns_to_return)
                       \cup OrderColumns(c))
    THEN "columns"
    ELSE FirstFailingIn(c, TRUE, DOMAIN c.data_to_be_updated,
                        "id" \in DOMAIN c.data_to_be_updated,
                        c.data_to_be_updated)

\* The check whose error the caller got before any session was acquired.
Reported == IF pc = "done" /\ ~InScope THEN result.exc.check ELSE "none"

\* C5 as stated: a call with an unregistered model, an unknown column, a
\* primary key in a write payload, a value of the wrong type or a null for
\* a non-nullable column, or a non-positive limit is raised to the caller
\* with no session acquired and the store unchanged.
C5_ValidationBeforeSession ==
    Invalid(call) =>
        /\ opened = 0
        /\ pc = "done"
        /\ result.kind = "raised"
        /\ store = store_before

\* C6: add rejects, with nothing stored, a row (dict or instance) that
\* supplies the primary key; update rejects a column_values mapping that
\* contains it; the primary key is never refused as a filter column; and so
\* every step leaves the ids of a table as they were, or removes rows, or
\* appends rows whose ids the database assigned.
C6_IdsStep ==
    \A t \in Tables :
       LET old == store[t]
           new == store'[t]
       IN  \/ /\ Len(new) = Len(old)
              /\ \A i \in DOMAIN old : new[i].id = old[i].id
           \/ /\ Len(new) < Len(old)
              /\ \A i \in DOMAIN new : \E j \in DOMAIN old : new[i] = old[j]
           \/ /\ Len(new) > Len(old)
              /\ SubSeq(new, 1, Len(old)) = old
              /\ \A i \in (Len(old) + 1)..Len(new) :
                    new[i].id = IntV(MaxId(SubSeq(new, 1, i - 1)) + 1)

C6_PkState ==
    /\ PkInPayload(call) =>
          /\ opened = 0
          /\ pc = "done"
          /\ result.kind = "raised"
          /\ store = store_before
    /\ Reported = "primary_key" => PkInPayload(call)
    /\ (Registered(call.model) /\ call.op \in {"get", "delete", "count"}
          /\ DOMAIN call.query_kwargs = {"id"}
          /\ ~Unknown(call, GivenColumns(call))) => pc # "done" \/ InScope

C6_PrimaryKeyProtected == [][C6_PkState' /\ C6_IdsStep]_vars

\* C6 witness: add of a model instance that carries an id was rejected by
\* the primary key check.
C6_Witness ==
    /\ pc = "done"
    /\ call.op = "add"
    /\ \E i \in DOMAIN call.data :
          call.data[i].kind = "instance" /\ SuppliesPk(call.data[i])
    /\ result.exc.check = "primary_key"
    /\ store = store_before

C8_NamesExactlyUnknownColumns ==
    Reported = "columns" =>
        /\ result.exc.names # {}
        /\ result.exc.names \subseteq GivenColumns(call)
        /\ result.exc.names \cap get_columns(call.model) = {}

\* C9 as stated: a write whose payload gives None to a non-nullable column
\* or a value of the wrong type is rejected before the statement is
\* executed, with a type error naming the column when nothing else is
\* wrong, and the store is unchanged.
C9_TypeCheckedBeforeExecution ==
    (call.op \in {"add", "update"} /\ WriteTypeViolation(call)) =>
        /\ opened = 0
        /\ pc = "done"
        /\ result.kind = "raised"
        /\ FirstFailing(call) = "type" =>
              (result.exc.type = "TypeError" /\ result.exc.names # {})
        /\ store = store_before

\* C10 as stated: the checks run in the order entity-known, columns-known,
\* primary-key-exclusion, value-type-check, and the error reported is the
\* one of the first check that fails.
C10_FirstFailingCheckReported ==
    call.op # "none" =>
        Reported = FirstFailing(call)

\* C11 as stated: get with a limit of zero or less is refused with an
\* invalid-argument error before any session is acquired and returns no
\* rows; such a limit is never treated as "no limit".
C11_LimitMustBePositive ==
    NonPositiveLimit(call) =>
        /\ opened = 0
        /\ pc = "done"
        /\ result.kind = "raised"
        /\ result.value.rows = <<>>

\* A row satisfies a filter when it agrees with every column = value
\* predicate of the filter.
Satisfies(row, filter) == \A c \in DOMAIN filter : row[c] = filter[c]

\* C12: a delete that returns has removed exactly the rows of the table
\* that satisfied every predicate of the filter, returns their number and
\* leaves every other row, and every other table, as it was; with an empty
\* filter it returns the number of rows of the table and leaves none.  A
\* delete that raises leaves the store as it was.
C12_DeleteExactlyMatching ==
    (pc = "done" /\ call.op = "delete" /\ InScope) =>
        LET before == store_before[call.model.name]
            after == store[call.model.name]
            q == call.query_kwargs
            hit == {i \in DOMAIN before : Satisfies(before[i], q)}
        IN  IF result.kind = "returned"
            THEN /\ result.value.number = Cardinality(hit)
                 /\ Len(after) = Len(before) - Cardinality(hit)
                 /\ \A i \in DOMAIN before \ hit :
                       \E j \in DOMAIN after : after[j] = before[i]
                 /\ \A j \in DOMAIN after :
                       \E i \in DOMAIN before \ hit : after[j] = before[i]
                 /\ \A j, k \in DOMAIN after :
                       j < k => after[j].id.v < after[k].id.v
                 /\ \A t \in Tables \ {call.model.name} :
                       store[t] = store_before[t]
                 /\ DOMAIN q = {} =>
                       (result.value.number = Len(before) /\ after = <<>>)
            ELSE store = store_before

\* C12 witness: a delete by name on a table of two rows removed the one row
\* of that name, returned 1 and left the other row.
C12_Witness ==
    /\ pc = "done"
    /\ call.op = "delete"
    /\ call.query_kwargs = [name |-> StrV(1)]
    /\ Len(store_before["MockModel"]) = 2
    /\ result.kind = "returned"
    /\ result.value.number = 1
    /\ Len(store["MockModel"]) = 1
    /\ store["MockModel"][1].name = StrV(2)

\* An update went through its session and returned to its caller.
UpdateReturned ==
    /\ pc = "done"
    /\ call.op = "update"
    /\ InScope
    /\ result.kind = "returned"

\* The positions of the rows of a table that satisfy a filter.
Hit(rows, filter) == {i \in DOMAIN rows : Satisfies(rows[i], filter)}

UpdateEffect ==
    (pc = "done" /\ call.op = "update" /\ InScope
        /\ ~WriteTypeViolation(call)) =>
        LET before == store_before[call.model.name]
            after == store[call.model.name]
            hit == Hit(before, call.query_kwargs)
            given == DOMAIN call.column_values \ {"updated_at"}
        IN  IF result.kind = "returned"
            THEN /\ result.value.number = Cardinality(hit)
                 /\ Len(after) = Len(before)
                 /\ \A i \in hit :
                       /\ \A c \in given : after[i][c] = call.column_values[c]
                       /\ after[i].updated_at = DtV(clock)
                       /\ \A c \in DOMAIN before[i] \ (given \cup {"updated_at"}) :
                             after[i][c] = before[i][c]
                 /\ \A i \in DOMAIN before \ hit : after[i] = before[i]
                 /\ \A t \in Tables \ {call.model.name} :
                       store[t] = store_before[t]
                 /\ hit = {} => (result.value.number = 0 /\ store = store_before)
            ELSE store = store_before

\* C14 as stated: the effect above, and every matched row has an updated_at
\* strictly greater than the one it had before the update.
C14_Original ==
    /\ UpdateEffect
    /\ UpdateReturned =>
          \A i \in Hit(store_before[call.model.name], call.query_kwargs) :
             store[call.model.name][i].updated_at.v
                 > store_before[call.model.name][i].updated_at.v

\* C14 amended: the effect above, and the updated_at of a matched row is
\* strictly greater than the one it had exactly when that one was earlier
\* than the time of the call (a row added with an updated_at of its
\* caller's, or updated at the same reading of the clock, is not).
C14_UpdateMatchingRows ==
    /\ UpdateEffect
    /\ UpdateReturned =>
          \A i \in Hit(store_before[call.model.name], call.query_kwargs) :
             (store[call.model.name][i].updated_at.v
                  > store_before[call.model.name][i].updated_at.v)
             <=> store_before[call.model.name][i].updated_at.v < clock

\* C14 witness: update by id of one row of two at a later time: 1 is
\* returned, the row has the new name and a greater updated_at, the other
\* row is as it was.
C14_Witness ==
    /\ UpdateReturned
    /\ call.query_kwargs = [id |-> IntV(1)]
    /\ call.column_values = [name |-> StrV(2)]
    /\ Len(store_before["MockModel"]) = 2
    /\ result.value.number = 1
    /\ store_before["MockModel"][1].name = StrV(1)
    /\ store["MockModel"][1].name = StrV(2)
    /\ store["MockModel"][1].updated_at.v > store_before["MockModel"][1].updated_at.v
    /\ store["MockModel"][2] = store_before["MockModel"][2]

\* A get went through its session and returned to its caller.
GetReturned ==
    /\ pc = "done"
    /\ call.op = "get"
    /\ InScope
    /\ result.kind = "returned"

\* Row a comes before row b under an order_by specification: at the first
\* listed column where they differ, a has the smaller value if the column's
\* flag is true and the greater value if it is false.
Precedes(a, b, order) ==
    \E k \in DOMAIN order :
        /\ \A j \in 1..(k - 1) : a[order[j][1]] = b[order[j][1]]
        /\ a[order[k][1]] # b[order[k][1]]
        /\ IF order[k][2] THEN ValueLess(a[order[k][1]], b[order[k][1]])
           ELSE ValueLess(b[order[k][1]], a[order[k][1]])

\* C17: a get with an order_by specification (all columns returned, limit
\* absent or positive) returns rows of the table that satisfy the filter,
\* each once, as many as the limit allows, none of them placed after a row
\* it precedes under the specification, and none left out that precedes a
\* returned one; and a get whose order_by names a column that is not of the
\* model is refused by the column check before any session.
C17_OrderedAsListed ==
    /\ (GetReturned /\ call.columns_to_order_by # <<>>
          /\ call.columns_to_return = <<>>
          /\ (call.limit = None \/ call.limit.v > 0)) =>
          LET rows == store[call.model.name]
              order == call.columns_to_order_by
              m == {rows[i] : i \in Hit(rows, call.query_kwargs)}
              r == result.value.rows
          IN  /\ \A i \in DOMAIN r : r[i] \in m
              /\ \A i, j \in DOMAIN r : i # j => r[i] # r[j]
              /\ Len(r) = IF call.limit # None /\ call.limit.v < Cardinality(m)
                          THEN call.limit.v ELSE Cardinality(m)
              /\ \A i, j \in DOMAIN r : i < j => ~Precedes(r[j], r[i], order)
              /\ \A x \in m \ Range(r) :
                    \A i \in DOMAIN r : ~Precedes(x, r[i], order)
    /\ (call.op = "get" /\ Registered(call.model)
          /\ ~Unknown(call, DOMAIN call.query_kwargs
                            \cup Range(call.columns_to_return))
          /\ Unknown(call, OrderColumns(call))) =>
          /\ pc = "done"
          /\ opened = 0
          /\ result.kind = "raised"
          /\ result.exc.check = "columns"

\* C17 witness: rows a and b were stored in this order, and a get ordered
\* by name descending returned b before a.
C17_Witness ==
    /\ GetReturned
    /\ call.columns_to_order_by = <<<<"name", FALSE>>>>
    /\ Len(store["MockModel"]) = 2
    /\ store["MockModel"][1].name = StrV(1)
    /\ store["MockModel"][2].name = StrV(2)
    /\ Len(result.value.rows) = 2
    /\ result.value.rows[1].name = StrV(2)
    /\ result.value.rows[2].name = StrV(1)

C18_CountEqualsGet ==
    (pc = "done" /\ call.op = "count" /\ InScope
        /\ result.kind = "returned") =>
        /\ result.value.number
              = Cardinality(Hit(store[call.model.name], call.query_kwargs))
        /\ prev.call.op = "get" =>
              result.value.number = Len(prev.value.rows)

\* C18 witness: get by name returned one row of a table of two, and the
\* count by the same name that followed returned 1.
C18_Witness ==
    /\ pc = "done"
    /\ call.op = "count"
    /\ prev.call.op = "get"
    /\ call.query_kwargs = [name |-> StrV(1)]
    /\ Len(store["MockModel"]) = 2
    /\ Len(prev.value.rows) = 1
    /\ result.kind = "returned"
    /\ result.value.number = 1

\* What is wrong with the `models` a MySQLAlchemy is constructed with.
NotAList == init_models.t # "list"

EmptyList == ~NotAList /\ init_models.v = <<>>

SameNameTwice ==
    /\ ~NotAList
    /\ \E i, j \in DOMAIN init_models.v :
          i # j /\ NameOf(init_models.v[i]) = NameOf(init_models.v[j])

NotAModel ==
    /\ ~NotAList
    /\ \E i \in DOMAIN init_models.v :
          ~IsClass(init_models.v[i]) \/ ~IsStandardModel(init_models.v[i])

\* Construction failed and left no registry.
NoRegistry ==
    /\ pc = "unconstructed"
    /\ result.kind = "raised"
    /\ models_list = <<>>
    /\ models_list_names = <<>>

\* C19 as stated: construction fails, and leaves no registry, when `models`
\* is not a list, is an empty list, has two entries of the same name, or
\* has at any position an entry that is not a class inheriting from
\* StandardModel; otherwise it succeeds with the list as the registry.
C19_InvalidRegistrationFails ==
    pc # "constructing" =>
        IF NotAList \/ EmptyList \/ SameNameTwice \/ NotAModel
        THEN NoRegistry
        ELSE pc = "idle" /\ models_list = init_models.v

\* C20: in every state, whatever calls were made and however they ended,
\* models_list is the list MySQLAlchemy was constructed with,
\* models_list_names are the names of its classes in the same order, and
\* each name is the name of exactly one entry of the registry, the one at
\* its position.
C20_RegistryReadOnly ==
    /\ init_models.t = "list"
    /\ models_list = init_models.v
    /\ Len(models_list_names) = Len(models_list)
    /\ \A i \in DOMAIN models_list :
          /\ models_list_names[i] = models_list[i].name
          /\ {j \in DOMAIN models_list :
                 models_list[j].name = models_list_names[i]} = {i}

\* C20 witness: after rows were stored, a call with a model that is not
\* registered was refused, and the registry is still the one class it was
\* constructed with.
C20_Witness ==
    /\ pc = "done"
    /\ ~Registered(call.model)
    /\ result.kind = "raised"
    /\ store["MockModel"] # <<>>
    /\ init_models = List(<<MockModel>>)
    /\ models_list = <<MockModel>>
    /\ models_list_names = <<"MockModel">>

\* A thread's call is inside its get_session scope.
Holding(t) ==
    threads[t].pc \in {"executing", "body_done", "failed", "committed",
                       "rolledback"}

\* C21: each call that passes validation acquires exactly one session and
\* releases it before it returns; when calls run concurrently no two calls
\* hold the same session, and every commit, rollback, close (and statement)
\* a call performs is on that call's own session.
C21_OneSessionPerCall ==
    /\ \A t \in Threads :
          LET th == threads[t]
          IN  /\ th.opened <= 1
              /\ Holding(t) =>
                    /\ th.opened = 1
                    /\ th.session \in SessionIds
                    /\ sessions[th.session].state = "open"
              /\ th.pc = "released" =>
                    /\ th.opened = 1
                    /\ sessions[th.session].state = "closed"
                    /\ Count(sessions[th.session].log, <<t, "close">>) = 1
              /\ th.opened = 0 => th.session = 0
    /\ \A t, u \in Threads :
          (t # u /\ threads[t].session # 0 /\ threads[u].session # 0) =>
              threads[t].session # threads[u].session
    /\ \A s \in SessionIds :
          \A i \in DOMAIN sessions[s].log :
              threads[sessions[s].log[i][1]].session = s

\* C21 witness: two calls are inside their scopes at once, each with its
\* own session; one has committed and the other has rolled back.
C21_Witness ==
    /\ threads[1].pc = "committed"
    /\ threads[2].pc = "rolledback"
    /\ threads[1].session # threads[2].session
    /\ sessions[threads[1].session].log[2] = <<1, "commit">>
    /\ sessions[threads[2].session].log[2] = <<2, "rollback">>

\* C22: no operation retries: an operation never acquires a second session
\* and never executes its statement twice, and once the statement or the
\* commit has failed the statement has been executed exactly once, commit
\* has been called once if it is what failed and never otherwise, and the
\* failure is what the operation reports.
C22_NoRetry ==
    /\ opened <= 1
    /\ Count(log, "add_all") + Count(log, "execute") <= 1
    /\ Count(log, "commit") <= 1
    /\ exc # NoError =>
          /\ opened = 1
          /\ Count(log, SessionMethod(call)) = 1
          /\ log[1] = SessionMethod(call)
          /\ Count(log, "commit") = IF CommitRaised THEN 1 ELSE 0
          /\ pc = "done" =>
                IF call.op = "add"
                THEN result.value = [NoValue EXCEPT !.error = exc.msg]
                ELSE result.kind = "raised" /\ result.exc = exc

\* C22 witness: the commit of an update failed and the update raised, after
\* one execute and one commit on its one session.
C22_Witness ==
    /\ pc = "done"
    /\ call.op = "update"
    /\ result.kind = "raised"
    /\ result.exc.msg = "commit failed"
    /\ opened = 1
    /\ log = <<"execute", "commit", "rollback", "close">>

\* The rows of the store that were stored when the operation in progress
\* was called, each with what it was then: <<before, now>>.
Kept ==
    {<<store_before[t][i], store[t][j]>> :
        <<t, i, j>> \in {x \in Tables \X (1..MaxRows + 1) \X (1..MaxRows + 1) :
                           /\ x[2] \in DOMAIN store_before[x[1]]
                           /\ x[3] \in DOMAIN store[x[1]]
                           /\ store_before[x[1]][x[2]].id
                                = store[x[1]][x[3]].id}}

\* C23 as stated: no update, get, count or add changes the created_at of a
\* stored row.
C23_Original ==
    store # store_before =>
    \A k \in Kept : k[2].created_at = k[1].created_at

\* C23 amended: the created_at of a stored row is changed by no get, count,
\* delete or add, and by no update whose column_values do not name
\* created_at; such an update refreshes updated_at alone of the two
\* timestamps.
C23_CreatedAtKept ==
    store # store_before =>
    \A k \in Kept :
        \/ k[2].created_at = k[1].created_at
        \/ /\ call.op = "update"
           /\ "created_at" \in DOMAIN call.column_values
           /\ k[2].created_at = call.column_values["created_at"]

\* C23 witness: an update that does not name created_at refreshed the
\* updated_at of a stored row and left its created_at as it was.
C23_Witness ==
    /\ UpdateReturned
    /\ "created_at" \notin DOMAIN call.column_values
    /\ \E k \in Kept :
          /\ k[2].updated_at # k[1].updated_at
          /\ k[2].created_at = k[1].created_at
          /\ k[2].created_at # k[2].updated_at

\* The positions of the rows of the table that satisfy the filter of the
\* get in progress.
Wanted ==
    {j \in DOMAIN store_before[call.model.name] :
        Satisfies(store_before[call.model.name][j], call.query_kwargs)}

C25_ManagerConstructs ==
    (shell.pc \in {"exited", "raised"} /\ shell.command # "") =>
        /\ shell.raised = NoError
        /\ shell.manager.database_url = shell.db_url
        /\ {"base", "engine"} \subseteq shell.manager.attrs

\* C26: when cli has ended, drop, reset and restore have invoked their
\* method only after the prompt was answered y or Y, and with any other
\* answer nothing was invoked and 'Operation cancelled' was printed;
\* create, info, backup and vacuum have invoked their method without a
\* prompt; with no command nothing was invoked.
C26_DestructiveNeedsYes ==
    shell.pc \in {"exited", "raised"} =>
        /\ shell.command \in {"drop", "reset", "restore"} =>
              IF shell.answer \in {"y", "Y"}
              THEN shell.prompted /\ shell.invoked = MethodOf(shell.command)
              ELSE /\ shell.invoked = <<>>
                   /\ shell.output = <<"Operation cancelled">>
        /\ shell.command \in {"create", "info", "backup", "vacuum"} =>
              /\ ~shell.prompted
              /\ Len(shell.invoked) = 1
              /\ shell.invoked = MethodOf(shell.command)
        /\ shell.command = "" =>
              (shell.invoked = <<>> /\ shell.manager = NoShell.manager)

\* C27: when the body of a get_session scope completed and commit raised,
\* rollback is called exactly once, right after the commit, then close
\* exactly once, and the exception of the commit is the one that leaves
\* the scope: add reports it and the other operations raise it.
C27_CommitFailureRolledBack ==
    (Count(log, "commit") = 1 /\ pc \notin {"body_done", "committed"}
       /\ exc # NoError) =>
        /\ CommitRaised
        /\ log[2] = "commit"
        /\ pc = "failed" => Len(log) = 2
        /\ pc \in {"rolledback", "released", "done"} =>
              /\ Count(log, "rollback") = 1
              /\ log[3] = "rollback"
        /\ pc = "rolledback" => Len(log) = 3
        /\ pc \in {"released", "done"} =>
              /\ Count(log, "close") = 1
              /\ log = <<SessionMethod(call), "commit", "rollback", "close">>
        /\ pc = "done" =>
              IF call.op = "add" THEN result.value.error = exc.msg
              ELSE result.kind = "raised" /\ result.exc = exc

\* C27 witness: the commit of a delete raised; the scope was left after one
\* rollback and one close, with the exception of the commit in flight.
C27_Witness ==
    /\ pc = "released"
    /\ call.op = "delete"
    /\ exc = DriverError("commit failed")
    /\ log = <<"execute", "commit", "rollback", "close">>

\* C28: a get with a positive limit L returns min(L, number of matching
\* rows) rows, each a matching row and none twice; when an ordering is
\* given they are the first rows of the ordered result: in the order asked
\* for, and no matching row that precedes a returned one is left out.
C28_LimitAfterOrder ==
    (GetReturned /\ call.limit # None /\ call.limit.v > 0) =>
        LET got == result.value.rows
            table == store_before[call.model.name]
            order == call.columns_to_order_by
            Same(i, j) == \A c \in DOMAIN got[i] : got[i][c] = table[j][c]
            taken == {j \in Wanted : \E i \in DOMAIN got : Same(i, j)}
        IN  /\ Len(got) = IF call.limit.v < Cardinality(Wanted)
                          THEN call.limit.v ELSE Cardinality(Wanted)
            /\ Cardinality(taken) = Len(got)
            /\ \A j \in taken, k \in Wanted :
                  Precedes(table[k], table[j], order) => k \in taken
            /\ \A i, k \in DOMAIN got :
                  \A j, l \in taken :
                      (i < k /\ Same(i, j) /\ Same(k, l)) =>
                          ~Precedes(table[l], table[j], order)

\* C28 witness: rows a and b are stored in this order and a get ordered by
\* name descending with limit 1 returned the one row b.
C28_Witness ==
    /\ GetReturned
    /\ call.limit = IntV(1)
    /\ call.columns_to_order_by = <<<<"name", FALSE>>>>
    /\ Len(store_before["MockModel"]) = 2
    /\ store_before["MockModel"][1].name = StrV(1)
    /\ store_before["MockModel"][2].name = StrV(2)
    /\ Len(result.value.rows) = 1
    /\ result.value.rows[1].name = StrV(2)

\* The positions of the pairs of zip(columns, values) that offend: a None
\* with a column that is not nullable, or a value other than None that is
\* no instance of the column's Python type.
Offending ==
    {i \in DOMAIN asserted.columns \cap DOMAIN asserted.values :
        \/ asserted.values[i] = None /\ ~asserted.columns[i].nullable
        \/ /\ asserted.values[i] # None
           /\ asserted.values[i].t # asserted.columns[i].python_type}

\* C29: columns_values_are_same_type raises exactly when some pair offends
\* (so a None paired with a nullable column is accepted), and the one error
\* it raises reports every offending pair, in order, and no other.
C29_RaisesExactlyOnOffendingPairs ==
    asserted.pc \in {"returned", "raised"} =>
        /\ asserted.raised <=> Offending # {}
        /\ Len(asserted.errors) = Cardinality(Offending)
        /\ \A i \in Offending :
              LET k == Cardinality({j \in Offending : j <= i})
              IN  /\ k \in DOMAIN asserted.errors
                  /\ asserted.errors[k].column = asserted.columns[i].key
                  /\ asserted.errors[k].value = asserted.values[i]

\* An item of the list of add that the loop of add refuses: a dict with a
\* key that is no column or with the primary key, an instance of the model
\* whose id is set, or anything that is neither a dict nor an instance of
\* the model.
Refused(model, item) ==
    CASE item.kind = "dict" ->
             \/ DOMAIN item.vals \ {"id", "name", "created_at", "updated_at"} # {}
             \/ "id" \in DOMAIN item.vals
      [] item.kind = "instance" ->
             \/ item.cls # model.name
             \/ ("id" \in DOMAIN item.vals /\ item.vals["id"] # None)
      [] OTHER -> TRUE

\* The validation of the call in progress has failed, or has passed.
ValidationFailed == pc = "done" /\ ~InScope /\ result.kind = "raised"
ValidationPassed == pc = "validated" \/ InScope

\* C30: add replaces in the caller's list every dict by a model instance
\* with the dict's entries, position by position as it validates: when an
\* item is refused the entries before it are replaced and the entries from
\* it on are untouched (all are untouched when the model is refused), and
\* instances stay as they are.  update puts the key updated_at into the
\* caller's mapping once all validation has passed, and leaves the mapping
\* untouched when validation fails.
C30_ArgumentsModifiedInPlace ==
    /\ call.op = "add" =>
          LET bad == {i \in DOMAIN call.items :
                         Refused(call.model, call.items[i])}
              done == IF ~Registered(call.model) THEN 0
                      ELSE IF bad = {} THEN Len(call.items)
                      ELSE (CHOOSE i \in bad : \A j \in bad : i <= j) - 1
          IN  /\ Len(call.data) = Len(call.items)
              /\ \A i \in DOMAIN call.items :
                    IF i <= done /\ call.items[i].kind = "dict"
                    THEN /\ call.data[i].kind = "instance"
                         /\ call.data[i].cls = call.model.name
                         /\ call.data[i].vals = call.items[i].vals
                    ELSE call.data[i] = call.items[i]
              /\ ValidationFailed <=>
                    /\ pc = "done"
                    /\ (done < Len(call.items) \/ ~Registered(call.model))
    /\ call.op = "update" =>
          /\ ValidationFailed => call.data_to_be_updated = call.column_values
          /\ ValidationPassed =>
                /\ DOMAIN call.data_to_be_updated
                     = DOMAIN call.column_values \cup {"updated_at"}
                /\ \A c \in DOMAIN call.column_values \ {"updated_at"} :
                      call.data_to_be_updated[c] = call.column_values[c]
          /\ ValidationFailed \/ ValidationPassed

\* C30 witness: add was called with two dicts of which the second carries
\* an id; it raised, and the caller's list holds an instance in the first
\* place and the dict it had in the second.
C30_Witness ==
    /\ pc = "done"
    /\ call.op = "add"
    /\ result.kind = "raised"
    /\ Len(call.items) = 2
    /\ call.items[1].kind = "dict"
    /\ call.data[1].kind = "instance"
    /\ call.data[2].kind = "dict"
    /\ call.data[2] = call.items[2]

====
